---- MODULE Spec2Model ----
(***************************************************************************)
(* Model of aemet_api/daily_climate.py and aemet_api/web.py: the           *)
(* decomposition of a date-range query into sub-queries that fit the API's *)
(* 5-year limit (_time_decompose_query), the single-query fetch            *)
(* (run_daily_climate_query over get_api_response) and the collection of   *)
(* all sub-queries' results (get_daily_climate_data).                      *)
(*                                                                         *)
(* Dates are proleptic Gregorian ordinals (datetime.date.toordinal): day 1 *)
(* is 0001-01-01 and MaxOrdinal is 9999-12-31.  date + timedelta(n) is     *)
(* ordinal + n and raises OverflowError outside 1..MaxOrdinal.             *)
(***************************************************************************)
EXTENDS Integers, Sequences, FiniteSets, TLC

(***************************************************************************)
(* Program constants                                                       *)
(***************************************************************************)
MAX_YEARS == 5

NO_DATA == "No hay datos que satisfagan esos criterios"

(***************************************************************************)
(* Bounds of the model                                                     *)
(***************************************************************************)
\* longest span (in days) of an input query
MaxSpan == 7306
\* spans are taken within Window days of a multiple of the chunk period
Window == 2
\* longest span (in days) of a query given to get_daily_climate_data
MaxCollectSpan == 3654
\* most records one data payload holds
MaxRecords == 2

(***************************************************************************)
(* datetime.date: ordinals and calendar dates                              *)
(***************************************************************************)
IsLeap(y) == (y % 4 = 0) /\ ((y % 100 # 0) \/ (y % 400 = 0))

DaysBeforeYear(y) ==
    (y - 1) * 365 + ((y - 1) \div 4) - ((y - 1) \div 100) + ((y - 1) \div 400)

DAYS_BEFORE_MONTH == <<0, 31, 59, 90, 120, 151, 181, 212, 243, 273, 304, 334>>

DaysBeforeMonth(y, m) ==
    DAYS_BEFORE_MONTH[m] + (IF m > 2 /\ IsLeap(y) THEN 1 ELSE 0)

\* date(y, m, d).toordinal()
Ymd2Ord(y, m, d) == DaysBeforeYear(y) + DaysBeforeMonth(y, m) + d

\* date.fromordinal(n) as <<year, month, day>>
Ord2Ymd(ord) ==
    LET n0   == ord - 1
        n400 == n0 \div 146097
        r400 == n0 % 146097
        n100 == r400 \div 36524
        r100 == r400 % 36524
        n4   == r100 \div 1461
        r4   == r100 % 1461
        n1   == r4 \div 365
        n    == r4 % 365
        year == n400 * 400 + 1 + n100 * 100 + n4 * 4 + n1
    IN  IF n1 = 4 \/ n100 = 4
        THEN <<year - 1, 12, 31>>
        ELSE LET leapyear == n1 = 3 /\ (n4 # 24 \/ n100 = 3)
                 leapday(m) == IF m > 2 /\ leapyear THEN 1 ELSE 0
                 month0 == (n + 50) \div 32
                 prec0  == DAYS_BEFORE_MONTH[month0] + leapday(month0)
                 month  == IF prec0 > n THEN month0 - 1 ELSE month0
                 prec   == DAYS_BEFORE_MONTH[month] + leapday(month)
             IN  <<year, month, n - prec + 1>>

\* date.max.toordinal()
MaxOrdinal == Ymd2Ord(9999, 12, 31)

IsDate(ord) == ord \in 1..MaxOrdinal

(***************************************************************************)
(* DailyClimateQuery                                                       *)
(***************************************************************************)
DailyClimateQuery(station_id, start_date, end_date) ==
    [station_id |-> station_id, start_date |-> start_date, end_date |-> end_date]

\* (self.end_date - self.start_date).days
days(q) == q.end_date - q.start_date

\* query.years > limit, where years = days / 365 in floating point.  The
\* quotient of two integers below 2^53 is correctly rounded and limit is an
\* integer, so the comparison is that of days with 365 * limit.
years_exceed(q, limit) == days(q) > 365 * limit

(***************************************************************************)
(* The inputs                                                              *)
(***************************************************************************)
Stations == {"6297", "6293X"}

ApiKeys == {"KEY1", "KEY2"}

\* number of days one full chunk covers: its two end points are included
Period == 365 * MAX_YEARS + 1

\* 1990-01-01 to 2009-10-05, the query of test__time_decompose_query
ExampleStart == Ymd2Ord(1990, 1, 1)
ExampleSpan == Ymd2Ord(2009, 10, 5) - Ymd2Ord(1990, 1, 1)

\* spans around every multiple of Period up to MaxSpan (start_date after
\* end_date included), and the span of the test's query
Spans ==
    {d \in (0 - Window)..MaxSpan :
        \E k \in 0..(MaxSpan \div Period) :
            (d - k * Period) \in (0 - Window)..Window}
    \cup {ExampleSpan}

\* the last start date lets the cursor of the decomposition come within one
\* chunk of date.max
StartDates ==
    {ExampleStart, Ymd2Ord(2019, 10, 1), MaxOrdinal - Period - Window}

Queries ==
    {DailyClimateQuery(s, d, d + n) : s \in Stations, d \in StartDates, n \in Spans}

EntryPoints == {"_time_decompose_query", "run_daily_climate_query",
                "get_daily_climate_data"}

(***************************************************************************)
(* The state                                                               *)
(***************************************************************************)
VARIABLES
    entry,               \* the function the caller invoked
    query,               \* its query argument
    api_key,             \* its api_key argument
    arg,                 \* the input of a function that is modelled on its own
    pc,                  \* the position of the program
    start_date,          \* _time_decompose_query: the cursor of the loop
    decomposed_queries,  \* _time_decompose_query: the list being built
    results,             \* get_daily_climate_data: the lists fetched so far
    response,            \* get_api_response: the JSON envelope received
    raised,              \* the exception that reached the caller
    yielded,             \* the records the consumer has taken from the chain
    returned,            \* what the function invoked has returned to its caller
    calls,               \* history: the invocations of the fetch function
    reports,             \* history: what the API answered to each of them
    requests             \* history: the HTTP requests issued

vars == <<entry, query, api_key, arg, pc, start_date, decomposed_queries, results,
          response, raised, yielded, returned, calls, reports, requests>>

NoResponse == [estado |-> 0, descripcion |-> "-"]

NoException == [type |-> "none"]

NoDate == 0

NoArgument == "-"

Init ==
    /\ entry \in EntryPoints
    /\ query \in Queries
    /\ IsDate(query.end_date)
    /\ entry = "get_daily_climate_data" => days(query) <= MaxCollectSpan
    /\ api_key \in ApiKeys
    /\ arg = NoArgument
    /\ pc = IF entry = "run_daily_climate_query" THEN "run" ELSE "decompose"
    /\ start_date = NoDate
    /\ decomposed_queries = <<>>
    /\ results = <<>>
    /\ response = NoResponse
    /\ raised = NoException
    /\ yielded = <<>>
    /\ returned = "nothing"
    /\ calls = <<>>
    /\ reports = <<>>
    /\ requests = <<>>

(***************************************************************************)
(* _time_decompose_query                                                   *)
(***************************************************************************)
\* line 186: the query has to be split
needs_decomposition(q) == years_exceed(q, MAX_YEARS)

\* mutant of undecomposed: the query itself is left out of the list
undecomposed_empty(q) == <<>>

\* line 203: the list returned for a query that fits the limit
undecomposed(q) == <<q>>

\* mutant of chunk_end: a year is taken to have 366 days
chunk_end_366(start) == start + 366 * MAX_YEARS

\* mutant of chunk_end: the chunk ends MAX_YEARS calendar years after its
\* start, on the eve of the anniversary
chunk_end_calendar(start) ==
    LET ymd == Ord2Ymd(start)
    IN  Ymd2Ord(ymd[1] + MAX_YEARS, ymd[2], ymd[3]) - 1

\* line 190: end_date = start_date + timedelta(365 * MAX_YEARS)
chunk_end(start) == start + 365 * MAX_YEARS

\* mutant of next_start: the next chunk starts on the day the last one ended
next_start_same_day(end) == end

\* mutant of next_start: a day is left out between two chunks
next_start_skip(end) == end + 2

\* line 199: start_date = end_date + timedelta(1)
next_start(end) == end + 1

\* the position the program goes to when _time_decompose_query returns
AfterDecompose ==
    IF entry = "get_daily_climate_data" THEN "comprehension" ELSE "done"

\* what the caller of the function invoked holds once _time_decompose_query
\* has returned
ReturnedAfterDecompose ==
    IF entry = "get_daily_climate_data" THEN "nothing" ELSE "list"

\* lines 186-188 and 203
TimeDecomposeEnter ==
    /\ pc = "decompose"
    /\ IF needs_decomposition(query)
       THEN /\ decomposed_queries' = <<>>
            /\ start_date' = query.start_date
            /\ pc' = "loop"
            /\ returned' = returned
       ELSE /\ decomposed_queries' = undecomposed(query)
            /\ start_date' = start_date
            /\ pc' = AfterDecompose
            /\ returned' = ReturnedAfterDecompose
    /\ UNCHANGED <<entry, query, api_key, arg, results, response, raised, yielded,
                   calls, reports, requests>>

\* lines 189-199: one iteration of the loop
TimeDecomposeLoop ==
    /\ pc = "loop"
    /\ LET end_date == chunk_end(start_date)
       IN  IF ~IsDate(end_date)
           THEN \* date + timedelta: OverflowError, date value out of range
                /\ raised' = [type |-> "OverflowError"]
                /\ pc' = "raised"
                /\ UNCHANGED <<start_date, decomposed_queries, returned>>
           ELSE IF end_date >= query.end_date
           THEN /\ decomposed_queries' = Append(decomposed_queries,
                     DailyClimateQuery(query.station_id, start_date, query.end_date))
                /\ pc' = AfterDecompose
                /\ returned' = ReturnedAfterDecompose
                /\ UNCHANGED <<start_date, raised>>
           ELSE /\ decomposed_queries' = Append(decomposed_queries,
                     DailyClimateQuery(query.station_id, start_date, end_date))
                /\ start_date' = next_start(end_date)
                /\ pc' = "loop"
                /\ UNCHANGED <<raised, returned>>
    /\ UNCHANGED <<entry, query, api_key, arg, results, response, yielded, calls,
                   reports, requests>>

(***************************************************************************)
(* daily_climate_endpoint                                                  *)
(***************************************************************************)
\* the characters of the decimal digits
DigitChars == <<"0", "1", "2", "3", "4", "5", "6", "7", "8", "9">>

Digit(n) == DigitChars[n + 1]

\* str(date): date.isoformat(), '%04d-%02d-%02d', as its ten characters
str(date) ==
    LET ymd == Ord2Ymd(date)
        y == ymd[1]
        m == ymd[2]
        d == ymd[3]
    IN  <<Digit(y \div 1000), Digit((y \div 100) % 10), Digit((y \div 10) % 10),
          Digit(y % 10), "-", Digit(m \div 10), Digit(m % 10), "-",
          Digit(d \div 10), Digit(d % 10)>>

start_date_to_api_parameter(date) == <<str(date), "T00:00:00UTC">>

end_date_to_api_parameter(date) == <<str(date), "T23:59:59UTC">>

\* mutant of daily_climate_endpoint: the two dates are taken for each other
daily_climate_endpoint_swapped(q, key) ==
    <<"https://opendata.aemet.es/opendata/api/valores/climatologicos/diarios/datos",
      "/fechaini/", start_date_to_api_parameter(q.end_date),
      "/fechafin/", end_date_to_api_parameter(q.start_date),
      "/estacion/", q.station_id, "/?api_key=", key>>

\* the parts of the URL, in the order they stand in it
daily_climate_endpoint(q, key) ==
    <<"https://opendata.aemet.es/opendata/api/valores/climatologicos/diarios/datos",
      "/fechaini/", start_date_to_api_parameter(q.start_date),
      "/fechafin/", end_date_to_api_parameter(q.end_date),
      "/estacion/", q.station_id, "/?api_key=", key>>

(***************************************************************************)
(* The AEMET API, as the program sees it                                   *)
(***************************************************************************)
Estados == {200, 401, 404, 429}

Descripciones == {"exito", NO_DATA, "No hay datos", "API key invalido"}

\* the JSON envelope that answers a request to an endpoint
Envelopes ==
    {[estado |-> e, descripcion |-> d, datos |-> "datos"] :
        e \in Estados, d \in Descripciones}

\* a record of the data payload: one day of one station
Record(q, j) == [indicativo |-> q.station_id, fecha |-> q.start_date + j - 1]

\* the data payloads the API may return for a query: records of the first
\* days of its range, at most MaxRecords of them
Payloads(q) ==
    LET most == IF days(q) + 1 < MaxRecords THEN days(q) + 1 ELSE MaxRecords
    IN  {[j \in 1..n |-> Record(q, j)] : n \in 0..(IF most < 0 THEN 0 ELSE most)}

(***************************************************************************)
(* run_daily_climate_query and get_api_response                            *)
(***************************************************************************)
AemetHttpError(descripcion, estado) ==
    [type |-> "AemetHttpError", descripcion |-> descripcion, estado |-> estado]

ValueError(q, limit) == [type |-> "ValueError", query |-> q, limit |-> limit]

\* mutant of span_too_large: a query of exactly MAX_YEARS years is refused
span_too_large_inclusive(q) == days(q) >= 365 * MAX_YEARS

\* line 81: the guard on the span of the query
span_too_large(q) == years_exceed(q, MAX_YEARS)

\* mutant of is_error: the HTTP status of the answer is read, which is 200
\* whatever the envelope says
is_error_http_status(r) == FALSE

\* web.py line 49: the envelope reports an error
is_error(r) == r.estado # 200

\* mutant of is_no_data: no error is taken for an empty result
is_no_data_never(e) == FALSE

\* mutant of is_no_data: the start of the message is compared
is_no_data_prefix(e) == e.descripcion \in {NO_DATA, "No hay datos"}

\* line 89: the error that stands for an empty result
is_no_data(e) == e.descripcion = NO_DATA

\* mutant of current_query: the sub-queries are fetched last to first
current_query_reversed ==
    IF entry = "run_daily_climate_query"
    THEN query
    ELSE decomposed_queries[Len(decomposed_queries) - Len(results)]

\* the query the running call of run_daily_climate_query was given
current_query ==
    IF entry = "run_daily_climate_query"
    THEN query
    ELSE decomposed_queries[Len(results) + 1]

\* what the API reported, as the caller of the fetch sees it: data, the
\* absence of data, or an error
ApiReport(r) ==
    IF r.estado = 200 THEN "data"
    ELSE IF r.descripcion = NO_DATA THEN "no data" ELSE "error"

\* run_daily_climate_query returns list
Return(list) ==
    /\ results' = Append(results, list)
    /\ response' = NoResponse
    /\ IF entry = "run_daily_climate_query"
       THEN pc' = "done" /\ returned' = "list"
       ELSE pc' = "comprehension" /\ returned' = returned

\* lines 81-85: the call and its check of the span
RunEnter ==
    /\ pc = "run"
    /\ calls' = Append(calls, [query |-> current_query, api_key |-> api_key])
    /\ IF span_too_large(current_query)
       THEN /\ raised' = ValueError(current_query, MAX_YEARS)
            /\ pc' = "raised"
       ELSE /\ raised' = raised
            /\ pc' = "get_api_response"
    /\ UNCHANGED <<entry, query, api_key, arg, start_date, decomposed_queries, results,
                   response, yielded, returned, reports, requests>>

\* line 87 and web.py lines 46-47: the request to the endpoint and its answer
GetApiResponse ==
    /\ pc = "get_api_response"
    /\ requests' = Append(requests,
           [kind |-> "endpoint", url |-> daily_climate_endpoint(current_query, api_key)])
    /\ response' \in Envelopes
    /\ reports' = Append(reports, ApiReport(response'))
    /\ pc' = "envelope"
    /\ UNCHANGED <<entry, query, api_key, arg, start_date, decomposed_queries, results,
                   raised, yielded, returned, calls>>

\* web.py lines 49-57 and lines 88-93: the envelope is an error or a pointer
\* to the data
HandleEnvelope ==
    /\ pc = "envelope"
    /\ IF is_error(response)
       THEN LET e == AemetHttpError(response.descripcion, response.estado)
            IN  IF is_no_data(e)
                THEN /\ Return(<<>>)
                     /\ raised' = raised
                ELSE /\ raised' = e
                     /\ pc' = "raised"
                     /\ UNCHANGED <<results, response, returned>>
       ELSE /\ pc' = "data"
            /\ UNCHANGED <<results, response, raised, returned>>
    /\ UNCHANGED <<entry, query, api_key, arg, start_date, decomposed_queries, yielded,
                   calls, reports, requests>>

\* line 94: the request for the data payload
FetchData ==
    /\ pc = "data"
    /\ requests' = Append(requests, [kind |-> "data", url |-> response.datos])
    /\ \E payload \in Payloads(current_query) : Return(payload)
    /\ UNCHANGED <<entry, query, api_key, arg, start_date, decomposed_queries, raised,
                   yielded, calls, reports>>

(***************************************************************************)
(* get_daily_climate_data                                                  *)
(***************************************************************************)
\* mutant of comprehension_done: a generator in place of the list, so that
\* the chain is built before any fetch has run
comprehension_lazy == TRUE

\* line 180: the list comprehension has run the fetch for every sub-query
comprehension_done == Len(results) = Len(decomposed_queries)

RECURSIVE Flatten(_)
Flatten(lists) ==
    IF lists = <<>> THEN <<>> ELSE Head(lists) \o Flatten(Tail(lists))

\* mutant of chain: the lists are chained last to first
chain_reversed(lists) ==
    Flatten([i \in 1..Len(lists) |-> lists[Len(lists) + 1 - i]])

\* line 179: itertools.chain(*lists), as the sequence it produces
chain(lists) == Flatten(lists)

\* lines 179-181: the next sub-query is fetched, or the chain over the fetched
\* lists is returned
Comprehension ==
    /\ pc = "comprehension"
    /\ IF comprehension_done
       THEN pc' = "consuming" /\ returned' = "chain"
       ELSE pc' = "run" /\ returned' = returned
    /\ UNCHANGED <<entry, query, api_key, arg, start_date, decomposed_queries, results,
                   response, raised, yielded, calls, reports, requests>>

\* the consumer takes the next element of the chain, or finds it exhausted
ChainNext ==
    /\ pc = "consuming"
    /\ IF Len(yielded) < Len(chain(results))
       THEN /\ yielded' = Append(yielded, chain(results)[Len(yielded) + 1])
            /\ pc' = pc
       ELSE /\ yielded' = yielded
            /\ pc' = "exhausted"
    /\ UNCHANGED <<entry, query, api_key, arg, start_date, decomposed_queries, results,
                   response, raised, returned, calls, reports, requests>>

(***************************************************************************)
(* The specification                                                       *)
(***************************************************************************)
Next ==
    \/ TimeDecomposeEnter
    \/ TimeDecomposeLoop
    \/ RunEnter
    \/ GetApiResponse
    \/ HandleEnvelope
    \/ FetchData
    \/ Comprehension
    \/ ChainNext

Spec == Init /\ [][Next]_vars

(***************************************************************************)
(* Properties of _time_decompose_query                                     *)
(***************************************************************************)
\* _time_decompose_query has just returned decomposed_queries
DecomposeReturned ==
    \/ entry = "_time_decompose_query" /\ pc = "done"
    \/ entry = "get_daily_climate_data" /\ pc = "comprehension" /\ results = <<>>

\* the chunks of decomposed_queries that hold the date d
ChunksHolding(d) ==
    {i \in 1..Len(decomposed_queries) :
        decomposed_queries[i].start_date <= d /\ d <= decomposed_queries[i].end_date}

\* C1: for a query with start_date <= end_date, the list returned by
\* _time_decompose_query partitions [start_date, end_date]: every date of the
\* range lies in exactly one chunk, no chunk holds a date outside the range,
\* and the chunks are in strictly ascending order.
C1_Partition ==
    (DecomposeReturned /\ query.start_date <= query.end_date) =>
        /\ \A d \in query.start_date..query.end_date :
               Cardinality(ChunksHolding(d)) = 1
        /\ \A i \in 1..Len(decomposed_queries) :
               \/ decomposed_queries[i].start_date > decomposed_queries[i].end_date
               \/ /\ query.start_date <= decomposed_queries[i].start_date
                  /\ decomposed_queries[i].end_date <= query.end_date
        /\ \A i \in 1..Len(decomposed_queries) - 1 :
               decomposed_queries[i].end_date < decomposed_queries[i + 1].start_date

\* a query with start_date <= end_date was split into five chunks
C1_Witness ==
    /\ DecomposeReturned
    /\ query.start_date <= query.end_date
    /\ Len(decomposed_queries) = 5

\* C2: every chunk of the decomposition spans at most 365 * MAX_YEARS days,
\* and no call of run_daily_climate_query made by get_daily_climate_data
\* raises the span-too-large ValueError.
C2_LimitSafety ==
    /\ \A i \in 1..Len(decomposed_queries) :
           decomposed_queries[i].end_date - decomposed_queries[i].start_date
               <= 365 * MAX_YEARS
    /\ entry = "get_daily_climate_data" => raised.type # "ValueError"

\* get_daily_climate_data has run the fetch on each of three chunks
C2_Witness ==
    /\ entry = "get_daily_climate_data"
    /\ Len(decomposed_queries) = 3
    /\ Len(calls) = 3
    /\ pc = "consuming"

\* C3: a query of at most 365 * MAX_YEARS days (start_date after end_date
\* included) is returned as the single-element list [query].
C3_Identity ==
    (DecomposeReturned /\ query.end_date - query.start_date <= 365 * MAX_YEARS) =>
        decomposed_queries = <<query>>

\* a query of exactly 365 * MAX_YEARS days was returned as it is
C3_Witness ==
    /\ DecomposeReturned
    /\ query.end_date - query.start_date = 365 * MAX_YEARS
    /\ decomposed_queries = <<query>>

\* the query and the expected output of test__time_decompose_query
ExampleQuery ==
    DailyClimateQuery("6297", Ymd2Ord(1990, 1, 1), Ymd2Ord(2009, 10, 5))

ExampleChunks ==
    << DailyClimateQuery("6297", Ymd2Ord(1990, 1, 1), Ymd2Ord(1994, 12, 31)),
       DailyClimateQuery("6297", Ymd2Ord(1995, 1, 1), Ymd2Ord(1999, 12, 31)),
       DailyClimateQuery("6297", Ymd2Ord(2000, 1, 1), Ymd2Ord(2004, 12, 30)),
       DailyClimateQuery("6297", Ymd2Ord(2004, 12, 31), Ymd2Ord(2009, 10, 5)) >>

\* C4: the first chunk starts at query.start_date, every chunk but the last
\* ends 365 * MAX_YEARS days after it starts, each following chunk starts the
\* day after the previous one ends, the last chunk ends at query.end_date and
\* every chunk has the query's station_id; 1990-01-01 to 2009-10-05 of
\* station 6297 gives the four chunks of the test.
C4_ChunkBoundaries ==
    DecomposeReturned =>
        LET n == Len(decomposed_queries)
        IN  /\ n >= 1
            /\ decomposed_queries[1].start_date = query.start_date
            /\ decomposed_queries[n].end_date = query.end_date
            /\ \A i \in 1..n : decomposed_queries[i].station_id = query.station_id
            /\ \A i \in 1..n - 1 :
                   /\ decomposed_queries[i].end_date
                          = decomposed_queries[i].start_date + 365 * MAX_YEARS
                   /\ decomposed_queries[i + 1].start_date
                          = decomposed_queries[i].end_date + 1
            /\ query = ExampleQuery => decomposed_queries = ExampleChunks

\* the query of the test was decomposed
C4_Witness ==
    /\ DecomposeReturned
    /\ query = ExampleQuery
    /\ Len(decomposed_queries) = 4

(***************************************************************************)
(* Properties of get_daily_climate_data                                    *)
(***************************************************************************)
Collecting == entry = "get_daily_climate_data"

\* the number of records of the first k lists fetched
RECURSIVE RecordsBefore(_)
RecordsBefore(k) ==
    IF k = 0 THEN 0 ELSE RecordsBefore(k - 1) + Len(results[k])

\* the answer to the k-th call of the fetch has been dealt with
Handled(k) == k < Len(reports) \/ (k = Len(reports) /\ pc # "envelope")

\* C5 as claimed: the fetch of sub-query k+1 is not invoked until the consumer
\* has advanced past the last record of sub-query k (stated for the
\* sub-queries k that have records).
C5_LazyFetching ==
    Collecting =>
        \A k \in 1..Len(calls) - 1 :
            Len(results[k]) >= 1 => Len(yielded) >= RecordsBefore(k)

\* C5 as amended: the fetch of every sub-query is invoked, and has returned,
\* before get_daily_climate_data returns the chain and so before the consumer
\* takes any record; taking records invokes no fetch.
C5_EagerFetching ==
    Collecting =>
        /\ returned = "chain" =>
               /\ Len(calls) = Len(decomposed_queries)
               /\ Len(results) = Len(decomposed_queries)
        /\ yielded # <<>> => returned = "chain"

\* the chain over three sub-queries is returned, the first of them has
\* records, and the consumer has taken none yet
C5_Witness ==
    /\ Collecting
    /\ returned = "chain"
    /\ yielded = <<>>
    /\ Len(calls) = 3
    /\ Len(results[1]) >= 1

\* C6: when every fetch succeeds, the chain yields the records the fetches
\* returned, each once: those of sub-query i before those of sub-query i+1
\* and, within a sub-query, in the order of its list.
C6_ConcatenationOrder ==
    (Collecting /\ returned = "chain") =>
        /\ Len(yielded) <= RecordsBefore(Len(results))
        /\ pc = "exhausted" => Len(yielded) = RecordsBefore(Len(results))
        /\ \A i \in 1..Len(results) : \A j \in 1..Len(results[i]) :
               RecordsBefore(i - 1) + j <= Len(yielded) =>
                   yielded[RecordsBefore(i - 1) + j] = results[i][j]

\* the chain over three sub-queries with records is exhausted
C6_Witness ==
    /\ Collecting
    /\ pc = "exhausted"
    /\ Len(results) = 3
    /\ \A i \in 1..3 : Len(results[i]) >= 2

\* C7 as claimed: when the fetch of sub-query k raises an error other than
\* "no data", the consumption of the sequence get_daily_climate_data returned
\* raises that error, and no later sub-query is fetched.
C7_RaisedOnConsumption ==
    (Collecting /\ raised.type = "AemetHttpError") =>
        /\ returned = "chain"
        /\ Len(calls) = Len(reports)

\* C7 as amended: when the fetch of sub-query k raises an error other than
\* "no data", the call of get_daily_climate_data itself raises that error,
\* with its descripcion and estado: no sequence is returned, no record is
\* yielded, and no later sub-query is fetched.
C7_RaisedByCall ==
    Collecting =>
        \A k \in 1..Len(reports) :
            (reports[k] = "error" /\ Handled(k)) =>
                /\ pc = "raised"
                /\ raised = AemetHttpError(response.descripcion, response.estado)
                /\ response.estado # 200
                /\ response.descripcion # NO_DATA
                /\ returned = "nothing"
                /\ yielded = <<>>
                /\ Len(calls) = k
                /\ Len(results) = k - 1

\* the fetch of the first of three sub-queries raised
C7_Witness ==
    /\ Collecting
    /\ Len(decomposed_queries) = 3
    /\ reports = <<"error">>
    /\ pc = "raised"

\* C8: a sub-query for which the API reports "no data" gives the empty list
\* and raises nothing; the sub-queries after it are still fetched and their
\* records are still in the result.
C8_NoDataHandling ==
    Collecting =>
        /\ \A k \in 1..Len(reports) :
               (reports[k] = "no data" /\ Handled(k)) =>
                   /\ Len(results) >= k
                   /\ results[k] = <<>>
                   /\ pc = "raised" => Len(reports) > k
        /\ raised.type = "AemetHttpError" => raised.descripcion # NO_DATA
        /\ returned = "chain" => Len(calls) = Len(decomposed_queries)
        /\ pc = "exhausted" =>
               \A i \in 1..Len(results) : \A j \in 1..Len(results[i]) :
                   \E n \in 1..Len(yielded) : yielded[n] = results[i][j]

\* the first of three sub-queries had no data, the other two were fetched and
\* their records were yielded
C8_Witness ==
    /\ Collecting
    /\ pc = "exhausted"
    /\ reports = <<"no data", "data", "data">>
    /\ Len(calls) = 3
    /\ Len(yielded) >= 2
    /\ Len(results[2]) >= 1
    /\ Len(results[3]) >= 1

(***************************************************************************)
(* Properties of run_daily_climate_query                                   *)
(***************************************************************************)
Running == entry = "run_daily_climate_query"

\* C9: a query of more than 365 * MAX_YEARS days fails at once with the
\* ValueError that names the query and the limit, before any request is
\* issued; a query within the limit never gets this error.
C9_EagerSpanValidation ==
    Running =>
        /\ (query.end_date - query.start_date > 365 * MAX_YEARS /\ pc # "run") =>
               /\ pc = "raised"
               /\ raised = [type |-> "ValueError", query |-> query, limit |-> MAX_YEARS]
               /\ requests = <<>>
               /\ results = <<>>
        /\ query.end_date - query.start_date <= 365 * MAX_YEARS =>
               raised.type # "ValueError"

\* a query one day over the limit was refused
C9_Witness ==
    /\ Running
    /\ query.end_date - query.start_date = 365 * MAX_YEARS + 1
    /\ raised.type = "ValueError"

\* C10: an AemetHttpError is suppressed, and the empty list returned, only
\* when its descripcion is the "no data" message; any other one reaches the
\* caller with the descripcion and the estado of the envelope; no data
\* payload is requested in either case.
C10_PropagationPolicy ==
    (Running /\ Len(reports) = 1 /\ Handled(1)) =>
        /\ reports[1] = "no data" =>
               /\ returned = "list"
               /\ results = << <<>> >>
               /\ raised = NoException
               /\ Len(requests) = 1
        /\ reports[1] = "error" =>
               /\ pc = "raised"
               /\ raised.type = "AemetHttpError"
               /\ raised.descripcion = response.descripcion
               /\ raised.estado = response.estado
               /\ response.estado # 200
               /\ response.descripcion # NO_DATA
               /\ returned = "nothing"
               /\ results = <<>>
               /\ Len(requests) = 1
        /\ raised.type = "AemetHttpError" => reports[1] = "error"
        /\ \A n \in 1..Len(requests) :
               requests[n].kind = "data" => reports[1] = "data"

\* an error whose descripcion only starts like the "no data" message reached
\* the caller
C10_Witness ==
    /\ Running
    /\ raised = AemetHttpError("No hay datos", 404)
    /\ pc = "raised"

(***************************************************************************)
(* wind.py: get_daily_wind_speed_data                                      *)
(***************************************************************************)
\* most records the iterable of get_daily_climate_data holds
MaxWindRecords == 2

IsDigit(c) == \E n \in 0..9 : DigitChars[n + 1] = c

DigitValue(c) == CHOOSE n \in 0..9 : DigitChars[n + 1] = c

AllDigits(chars) == Len(chars) >= 1 /\ \A i \in 1..Len(chars) : IsDigit(chars[i])

\* the number a string of digits writes
RECURSIVE Decimal(_)
Decimal(chars) ==
    IF chars = <<>> THEN 0
    ELSE 10 * Decimal(SubSeq(chars, 1, Len(chars) - 1)) + DigitValue(chars[Len(chars)])

Ok(value) == [ok |-> TRUE, value |-> value]

Raise(type, what) == [ok |-> FALSE, exception |-> [type |-> type, what |-> what]]

None == "None"

\* value.replace(old, new), for one-character old and new
replace(chars, old, new) ==
    [i \in 1..Len(chars) |-> IF chars[i] = old THEN new ELSE chars[i]]

\* float(chars), in hundredths, for the strings 'digits' and 'digits.digits'
\* with at most two decimals; any other string of the inputs is no number
float(chars) ==
    LET points == {i \in 1..Len(chars) : chars[i] = "."}
    IN  IF points = {}
        THEN IF AllDigits(chars) THEN Ok(100 * Decimal(chars))
             ELSE Raise("ValueError", chars)
        ELSE LET p == CHOOSE i \in points : TRUE
                 whole == SubSeq(chars, 1, p - 1)
                 frac == SubSeq(chars, p + 1, Len(chars))
             IN  IF Cardinality(points) = 1 /\ AllDigits(whole) /\ AllDigits(frac)
                    /\ Len(frac) <= 2
                 THEN Ok(100 * Decimal(whole)
                         + (IF Len(frac) = 1 THEN 10 ELSE 1) * Decimal(frac))
                 ELSE Raise("ValueError", chars)

\* int(chars), for strings of digits; any other string of the inputs is no
\* number
int(chars) ==
    IF AllDigits(chars) THEN Ok(Decimal(chars)) ELSE Raise("ValueError", chars)

\* datetime.strptime(chars, '%Y-%m-%d').date(), for the zero-padded form
\* (strptime also takes a month or a day of one digit, which no input has)
strptime_date(chars) ==
    IF /\ Len(chars) = 10
       /\ chars[5] = "-"
       /\ chars[8] = "-"
       /\ AllDigits(SubSeq(chars, 1, 4))
       /\ AllDigits(SubSeq(chars, 6, 7))
       /\ AllDigits(SubSeq(chars, 9, 10))
    THEN LET y == Decimal(SubSeq(chars, 1, 4))
             m == Decimal(SubSeq(chars, 6, 7))
             d == Decimal(SubSeq(chars, 9, 10))
         IN  IF /\ y >= 1
                /\ m \in 1..12
                /\ d >= 1
                /\ Ymd2Ord(y, m, d) <= Ymd2Ord(y, m, 1) - 1
                       + (IF m = 12 THEN 31 ELSE Ymd2Ord(y, m + 1, 1) - Ymd2Ord(y, m, 1))
             THEN Ok(Ymd2Ord(y, m, d))
             ELSE Raise("ValueError", chars)
    ELSE Raise("ValueError", chars)

\* record[field_name]
get_item(record, field_name) ==
    IF field_name \in DOMAIN record
    THEN Ok(record[field_name])
    ELSE Raise("KeyError", field_name)

\* mutant of process_wind_speed_field: the missing field is not caught
process_wind_speed_field_uncaught(field_name, record) ==
    LET item == get_item(record, field_name)
    IN  IF item.ok THEN float(replace(item.value, ",", ".")) ELSE item

\* lines 154-166
process_wind_speed_field(field_name, record) ==
    LET item == get_item(record, field_name)
    IN  IF ~item.ok THEN Ok(None) ELSE float(replace(item.value, ",", "."))

\* lines 169-181
process_wind_direction_field(field_name, record) ==
    LET item == get_item(record, field_name)
    IN  IF ~item.ok THEN Ok(None) ELSE int(item.value)

DailyWindData(station_id, date, ave_wind_speed, max_gust, direction) ==
    [station_id |-> station_id, date |-> date, ave_wind_speed |-> ave_wind_speed,
     max_gust |-> max_gust, direction |-> direction]

\* lines 143-149: the observation of one record, or the first exception that
\* the evaluation of its fields raises
wind_data(q, record) ==
    LET fecha == get_item(record, "fecha")
        date == IF fecha.ok THEN strptime_date(fecha.value) ELSE fecha
        ave_wind_speed == process_wind_speed_field("velmedia", record)
        max_gust == process_wind_speed_field("racha", record)
        direction == process_wind_direction_field("dir", record)
    IN  IF ~date.ok THEN date
        ELSE IF ~ave_wind_speed.ok THEN ave_wind_speed
        ELSE IF ~max_gust.ok THEN max_gust
        ELSE IF ~direction.ok THEN direction
        ELSE Ok(DailyWindData(q.station_id, date.value, ave_wind_speed.value,
                              max_gust.value, direction.value))

\* the values a field of a raw record may have
FieldValues ==
    [fecha |-> {str(Ymd2Ord(2019, 10, 1)), <<"0", "1", "/", "1", "0", "/", "1", "9">>},
     velmedia |-> {<<"3", ",", "6">>},
     racha |-> {<<"1", "3", ",", "3">>},
     dir |-> {<<"2", "7">>}]

FieldNames == {"fecha", "velmedia", "racha", "dir"}

\* the raw records: each field is absent or has one of its values
RawRecords ==
    UNION {[names -> UNION {FieldValues[f] : f \in names}] : names \in SUBSET FieldNames}

WellTyped(record) == \A f \in DOMAIN record : record[f] \in FieldValues[f]

\* what get_daily_climate_data may yield
WindPayloads ==
    UNION {[1..n -> {r \in RawRecords : WellTyped(r)}] : n \in 0..MaxWindRecords}

WindQueries ==
    {DailyClimateQuery(s, Ymd2Ord(2019, 10, 1), Ymd2Ord(2019, 11, 1)) : s \in Stations}

\* the call of get_daily_wind_speed_data, at the point where
\* get_daily_climate_data has returned its iterable
WindInit ==
    /\ entry = "get_daily_wind_speed_data"
    /\ query \in WindQueries
    /\ api_key \in ApiKeys
    /\ arg \in WindPayloads
    /\ pc = "wind"
    /\ start_date = NoDate
    /\ decomposed_queries = <<>>
    /\ results = <<>>
    /\ response = NoResponse
    /\ raised = NoException
    /\ yielded = <<>>
    /\ returned = "nothing"
    /\ calls = <<>>
    /\ reports = <<>>
    /\ requests = <<>>

\* lines 142-151: one step of the list comprehension; results holds the
\* observations made so far
WindNext ==
    /\ pc = "wind"
    /\ IF Len(yielded) < Len(arg)
       THEN LET record == arg[Len(yielded) + 1]
                data == wind_data(query, record)
            IN  /\ yielded' = Append(yielded, record)
                /\ IF data.ok
                   THEN /\ results' = Append(results, data.value)
                        /\ UNCHANGED <<pc, raised>>
                   ELSE /\ raised' = data.exception
                        /\ pc' = "raised"
                        /\ UNCHANGED results
                /\ UNCHANGED returned
       ELSE /\ returned' = "list"
            /\ pc' = "done"
            /\ UNCHANGED <<yielded, results, raised>>
    /\ UNCHANGED <<entry, query, api_key, arg, start_date, decomposed_queries,
                   response, calls, reports, requests>>

SpecWind == WindInit /\ [][WindNext]_vars

(***************************************************************************)
(* Properties of get_daily_wind_speed_data                                 *)
(***************************************************************************)
\* the i-th record taken from the iterable was made an observation
Mapped(i) == i <= Len(results)

\* C11: an absent velmedia, racha or dir gives None for ave_wind_speed,
\* max_gust or direction and raises nothing, and the observation has the
\* station_id of the query; an absent fecha makes the mapping fail with an
\* error (KeyError) and gives no observation.
C11_WindFields ==
    \A i \in 1..Len(yielded) :
        LET record == arg[i]
        IN  IF "fecha" \notin DOMAIN record
            THEN /\ ~Mapped(i)
                 /\ pc = "raised"
                 /\ raised.type = "KeyError"
                 /\ returned = "nothing"
            ELSE /\ record["fecha"] = str(Ymd2Ord(2019, 10, 1)) =>
                        /\ Mapped(i)
                        /\ results[i].date = Ymd2Ord(2019, 10, 1)
                 /\ Mapped(i) =>
                        /\ results[i].station_id = query.station_id
                        /\ "velmedia" \notin DOMAIN record =>
                               results[i].ave_wind_speed = "None"
                        /\ "racha" \notin DOMAIN record =>
                               results[i].max_gust = "None"
                        /\ "dir" \notin DOMAIN record =>
                               results[i].direction = "None"

\* a record with nothing but its fecha was made an observation, and the
\* record after it, which has no fecha, made the mapping fail
C11_Witness ==
    /\ Len(yielded) = 2
    /\ DOMAIN arg[1] = {"fecha"}
    /\ DOMAIN arg[2] = {"velmedia", "racha", "dir"}
    /\ Len(results) = 1
    /\ results[1].ave_wind_speed = "None"
    /\ results[1].max_gust = "None"
    /\ results[1].direction = "None"
    /\ raised.type = "KeyError"

(***************************************************************************)
(* daily_climate_endpoint on its own                                       *)
(***************************************************************************)
\* the dates of the queries go up to this many days past each base date
MaxDayOffset == 8

\* dates before and after the turn of a month, a year, a leap day, and with
\* a year of three digits
EndpointDates ==
    {base + k : base \in {Ymd2Ord(990, 1, 5), Ymd2Ord(1999, 12, 27),
                          Ymd2Ord(2020, 2, 25)},
                k \in 0..MaxDayOffset}

EndpointQueries ==
    {DailyClimateQuery(s, a, b) : s \in Stations, a \in EndpointDates,
                                  b \in EndpointDates}

EndpointInit ==
    /\ entry = "daily_climate_endpoint"
    /\ query \in EndpointQueries
    /\ api_key \in ApiKeys
    /\ arg = NoArgument
    /\ pc = "endpoint"
    /\ start_date = NoDate
    /\ decomposed_queries = <<>>
    /\ results = <<>>
    /\ response = NoResponse
    /\ raised = NoException
    /\ yielded = <<>>
    /\ returned = "nothing"
    /\ calls = <<>>
    /\ reports = <<>>
    /\ requests = <<>>

\* lines 103-116
EndpointCall ==
    /\ pc = "endpoint"
    /\ returned' = daily_climate_endpoint(query, api_key)
    /\ pc' = "done"
    /\ UNCHANGED <<entry, query, api_key, arg, start_date, decomposed_queries,
                   results, response, raised, yielded, calls, reports, requests>>

SpecEndpoint == EndpointInit /\ [][EndpointCall]_vars

\* chars is the zero-padded form YYYY-MM-DD of date
IsIsoOf(chars, date) ==
    /\ Len(chars) = 10
    /\ strptime_date(chars) = Ok(date)

\* C12: the URL has, after 'fechaini/', the ISO date of query.start_date and
\* 'T00:00:00UTC', after 'fechafin/', the ISO date of query.end_date and
\* 'T23:59:59UTC', and then '/estacion/<station_id>/?api_key=<api_key>'; the
\* two dates are never taken for each other.
C12_Endpoint ==
    pc = "done" =>
        /\ Len(returned) = 9
        /\ returned[1] =
             "https://opendata.aemet.es/opendata/api/valores/climatologicos/diarios/datos"
        /\ returned[2] = "/fechaini/"
        /\ Len(returned[3]) = 2
        /\ IsIsoOf(returned[3][1], query.start_date)
        /\ returned[3][2] = "T00:00:00UTC"
        /\ returned[4] = "/fechafin/"
        /\ Len(returned[5]) = 2
        /\ IsIsoOf(returned[5][1], query.end_date)
        /\ returned[5][2] = "T23:59:59UTC"
        /\ returned[6] = "/estacion/"
        /\ returned[7] = query.station_id
        /\ returned[8] = "/?api_key="
        /\ returned[9] = api_key

\* the URL of a query whose start_date is after its end_date
C12_Witness ==
    /\ pc = "done"
    /\ query.start_date = Ymd2Ord(2020, 3, 1)
    /\ query.end_date = Ymd2Ord(990, 1, 5)
    /\ returned[3][1] = <<"2", "0", "2", "0", "-", "0", "3", "-", "0", "1">>
    /\ returned[5][1] = <<"0", "9", "9", "0", "-", "0", "1", "-", "0", "5">>

(***************************************************************************)
(* beaufort_number                                                         *)
(*                                                                         *)
(* A wind speed is a whole number of hundredths of a metre per second; an  *)
(* upper bound in m/s is the fraction num/den the code computes from km/h. *)
(***************************************************************************)
\* the highest wind speed of the inputs, in hundredths of m/s
MaxSpeed == 4200

Speeds == (-100)..MaxSpeed

\* line 96
km_per_h == <<1, 5, 11, 19, 28, 38, 49, 61, 74, 88, 102, 117, 118>>

\* mutant of m_per_s: the bounds are left in km/h
m_per_s_unconverted ==
    [i \in DOMAIN km_per_h |-> [num |-> km_per_h[i], den |-> 1]]

\* line 98: x * 1000 / 3600
m_per_s ==
    [i \in DOMAIN km_per_h |-> [num |-> km_per_h[i] * 1000, den |-> 3600]]

\* wind_speed <= upper_bound, line 199
speed_le(wind_speed, upper_bound) ==
    wind_speed * upper_bound.den <= upper_bound.num * 100

\* the loop of lines 198-201 from the i-th bound on; enumerate counts from 0
RECURSIVE beaufort_from(_, _)
beaufort_from(wind_speed, i) ==
    IF i > Len(m_per_s) THEN 12
    ELSE IF speed_le(wind_speed, m_per_s[i]) THEN i - 1
    ELSE beaufort_from(wind_speed, i + 1)

beaufort_number(wind_speed) == beaufort_from(wind_speed, 1)

BeaufortInit ==
    /\ entry = "beaufort_number"
    /\ query = DailyClimateQuery("6297", ExampleStart, ExampleStart)
    /\ api_key = "key1"
    /\ arg \in Speeds
    /\ pc = "beaufort"
    /\ start_date = NoDate
    /\ decomposed_queries = <<>>
    /\ results = <<>>
    /\ response = NoResponse
    /\ raised = NoException
    /\ yielded = <<>>
    /\ returned = "nothing"
    /\ calls = <<>>
    /\ reports = <<>>
    /\ requests = <<>>

BeaufortCall ==
    /\ pc = "beaufort"
    /\ returned' = beaufort_number(arg)
    /\ pc' = "done"
    /\ UNCHANGED <<entry, query, api_key, arg, start_date, decomposed_queries,
                   results, response, raised, yielded, calls, reports, requests>>

SpecBeaufort == BeaufortInit /\ [][BeaufortCall]_vars

\* the indices, counted from 0, of the bounds of 1, 5, ... km/h that the
\* speed of n hundredths of m/s does not exceed: n/100 <= km * 1000/3600
IndicesNotExceeded(n) ==
    {i \in 0..12 :
        n * 36 <= <<1, 5, 11, 19, 28, 38, 49, 61, 74, 88, 102, 117, 118>>[i + 1] * 1000}

Smallest(S) == CHOOSE i \in S : \A j \in S : i <= j

\* C13: the Beaufort number is an integer in 0..12, the smallest index whose
\* upper bound the speed does not exceed and 12 when it exceeds them all; it
\* does not decrease as the speed grows; 0.25 -> 0, 20 -> 8, 30.6 -> 11,
\* 41.7 -> 12.
C13_Beaufort ==
    (entry = "beaufort_number" /\ pc = "done") =>
        /\ returned \in 0..12
        /\ returned = IF IndicesNotExceeded(arg) = {} THEN 12
                      ELSE Smallest(IndicesNotExceeded(arg))
        /\ (arg - 1 \in Speeds => beaufort_number(arg - 1) <= returned)
        /\ (arg + 1 \in Speeds => returned <= beaufort_number(arg + 1))
        /\ (arg = 25 => returned = 0)
        /\ (arg = 2000 => returned = 8)
        /\ (arg = 3060 => returned = 11)
        /\ (arg = 4170 => returned = 12)

\* 30.6 m/s is force 11, the number of the twelfth bound
C13_Witness ==
    /\ entry = "beaufort_number"
    /\ pc = "done"
    /\ arg = 3060
    /\ returned = 11

(***************************************************************************)
(* degrees_to_cardinal                                                     *)
(*                                                                         *)
(* An angle is a whole number of steps of 1/DegreeSteps degree; the bounds *)
(* of the sectors, 22.5 + 45 k, are whole numbers of half degrees.         *)
(***************************************************************************)
\* the number of angles of the inputs in each degree
DegreeSteps == 4

Degrees == 0..(360 * DegreeSteps)

\* line 186
directions == <<"NE", "E", "SE", "S", "SW", "W", "NW", "N">>

\* deg > lower_bound and deg <= upper_bound, line 190; bounds in half degrees
in_sector(deg, lower_bound, upper_bound) ==
    /\ deg * 2 > lower_bound * DegreeSteps
    /\ deg * 2 <= upper_bound * DegreeSteps

\* the loop of lines 188-193 from the i-th direction on
RECURSIVE cardinal_from(_, _, _)
cardinal_from(deg, i, lower_bound) ==
    IF i > Len(directions) - 1 THEN directions[Len(directions)]
    ELSE IF in_sector(deg, lower_bound, lower_bound + 90) THEN directions[i]
    ELSE cardinal_from(deg, i + 1, lower_bound + 90)

\* mutant of degrees_to_cardinal: the first sector begins at 0 degrees
degrees_to_cardinal_from_zero(deg) == cardinal_from(deg, 1, 0)

\* lower_bound = 22.5, line 187
degrees_to_cardinal(deg) == cardinal_from(deg, 1, 45)

CardinalInit ==
    /\ entry = "degrees_to_cardinal"
    /\ query = DailyClimateQuery("6297", ExampleStart, ExampleStart)
    /\ api_key = "key1"
    /\ arg \in Degrees
    /\ pc = "cardinal"
    /\ start_date = NoDate
    /\ decomposed_queries = <<>>
    /\ results = <<>>
    /\ response = NoResponse
    /\ raised = NoException
    /\ yielded = <<>>
    /\ returned = "nothing"
    /\ calls = <<>>
    /\ reports = <<>>
    /\ requests = <<>>

CardinalCall ==
    /\ pc = "cardinal"
    /\ returned' = degrees_to_cardinal(arg)
    /\ pc' = "done"
    /\ UNCHANGED <<entry, query, api_key, arg, start_date, decomposed_queries,
                   results, response, raised, yielded, calls, reports, requests>>

SpecCardinal == CardinalInit /\ [][CardinalCall]_vars

\* the angle of n steps lies in (from, to], both given in half degrees
Within(n, from, to) ==
    /\ 2 * n > from * DegreeSteps
    /\ 2 * n <= to * DegreeSteps

\* C14: for every angle in [0, 360] the result is the direction of the
\* 45-degree sector holding it: NE for (22.5, 67.5], then E, SE, S, SW, W, NW
\* up to 337.5, and N at or below 22.5 and above 337.5; 355 and 1 give N.
C14_Cardinal ==
    (entry = "degrees_to_cardinal" /\ pc = "done") =>
        /\ returned \in {"N", "NE", "E", "SE", "S", "SW", "W", "NW"}
        /\ returned = "NE" <=> Within(arg, 45, 135)
        /\ returned = "E" <=> Within(arg, 135, 225)
        /\ returned = "SE" <=> Within(arg, 225, 315)
        /\ returned = "S" <=> Within(arg, 315, 405)
        /\ returned = "SW" <=> Within(arg, 405, 495)
        /\ returned = "W" <=> Within(arg, 495, 585)
        /\ returned = "NW" <=> Within(arg, 585, 675)
        /\ returned = "N" <=> (2 * arg <= 45 * DegreeSteps \/ 2 * arg > 675 * DegreeSteps)
        /\ (arg = 40 * DegreeSteps => returned = "NE")
        /\ (arg = 80 * DegreeSteps => returned = "E")
        /\ (arg = 140 * DegreeSteps => returned = "SE")
        /\ (arg = 190 * DegreeSteps => returned = "S")
        /\ (arg = 220 * DegreeSteps => returned = "SW")
        /\ (arg = 275 * DegreeSteps => returned = "W")
        /\ (arg = 310 * DegreeSteps => returned = "NW")
        /\ (arg = 355 * DegreeSteps => returned = "N")
        /\ (arg = 1 * DegreeSteps => returned = "N")

\* 355 degrees, past the last bound of the loop, is north
C14_Witness ==
    /\ entry = "degrees_to_cardinal"
    /\ pc = "done"
    /\ arg = 355 * DegreeSteps
    /\ returned = "N"

(***************************************************************************)
(* Further properties of get_daily_climate_data and _time_decompose_query  *)
(***************************************************************************)
\* the requests of the given kind sent so far
RequestsOfKind(kind) == {i \in 1..Len(requests) : requests[i].kind = kind}

\* C15: during one call of get_daily_climate_data the fetch is invoked at
\* most once for each sub-query and never again, with the caller's api_key,
\* in the chronological order of the sub-queries; the fetch of a sub-query
\* does not begin before that of the one before it has returned; when no
\* fetch fails there are as many invocations as chunks.
C15_SequentialFetching ==
    Collecting =>
        /\ Len(calls) <= Len(decomposed_queries)
        /\ \A k \in 1..Len(calls) :
               calls[k] = [query |-> decomposed_queries[k], api_key |-> api_key]
        /\ \A k \in 1..Len(calls) - 1 :
               calls[k].query.start_date < calls[k + 1].query.start_date
        /\ Len(calls) <= Len(results) + 1
        /\ Len(calls) = Len(results) + 1 <=>
               \/ pc \in {"get_api_response", "envelope", "data"}
               \/ pc = "raised" /\ raised.type = "AemetHttpError"
        /\ Cardinality(RequestsOfKind("endpoint")) <= Len(calls)
        /\ Cardinality(RequestsOfKind("data")) <= Len(results)
        /\ returned = "chain" => Len(calls) = Len(decomposed_queries)

\* the second of three sub-queries is being fetched after the first fetch
\* has returned
C15_Witness ==
    /\ Collecting
    /\ Len(decomposed_queries) = 3
    /\ Len(calls) = 2
    /\ Len(results) = 1
    /\ pc = "envelope"

\* the number of chunks claimed for a query of D days
ClaimedChunks(D) == (D + Period) \div Period

\* C16: for every query _time_decompose_query terminates; when the query is
\* decomposed the cursor grows by 365 * MAX_YEARS + 1 days in each iteration,
\* at least 2 chunks are emitted, and their number is
\* ceil((D + 1) / (365 * MAX_YEARS + 1)) for D = end_date - start_date.
C16_Termination ==
    entry = "_time_decompose_query" =>
        /\ pc = "loop" =>
               start_date = query.start_date + Period * Len(decomposed_queries)
        /\ pc = "loop" => Len(decomposed_queries) < ClaimedChunks(days(query))
        /\ (needs_decomposition(query) /\ pc \notin {"decompose", "loop"}) =>
               /\ pc = "done"
               /\ Len(decomposed_queries) >= 2
               /\ Len(decomposed_queries) = ClaimedChunks(days(query))

\* every chunk a query in date order was given starts no later than it ends
WellFormedChunks ==
    query.start_date <= query.end_date =>
        \A i \in 1..Len(decomposed_queries) :
            decomposed_queries[i].start_date <= decomposed_queries[i].end_date

\* C17: for a query with start_date <= end_date every chunk emitted by
\* _time_decompose_query has start_date <= end_date, and the call leaves the
\* query's station_id, start_date and end_date as they were.
C17_WellFormedPure ==
    /\ [](entry \in {"_time_decompose_query", "get_daily_climate_data"}
            => WellFormedChunks)
    /\ [][query' = query]_vars

\* the last of two chunks is the single day query.end_date
C17_Witness ==
    /\ entry = "_time_decompose_query"
    /\ pc = "done"
    /\ Len(decomposed_queries) = 2
    /\ decomposed_queries[2].start_date = query.end_date
    /\ decomposed_queries[2].end_date = query.end_date

====
